---- MODULE Spec2Model ----
(***************************************************************************)
(* Model of the HexChat language-translator plugin (src/src/lib.rs).       *)
(*                                                                         *)
(* The control thread runs the command handlers, the text-event handler    *)
(* and the continuations that worker threads pass to main_thread(); each   *)
(* worker thread runs one deepl_translate() call.                          *)
(*                                                                         *)
(* Text is a sequence of chunks (strings); a format chunk stands for an    *)
(* IRC colour/attribute code.  An Option is a sequence of length 0 or 1.   *)
(* Every line the plugin prints, every command it issues and every event   *)
(* it emits during one step is recorded, in order, in `out`.               *)
(***************************************************************************)
EXTENDS Naturals, Sequences, FiniteSets, Bags, TLC

VARIABLES
  registry,   \* the ChanMap: (network, channel) -> (source_lang, target_lang)
  open,       \* the contexts (windows) the host currently has
  hasKey,     \* whether DEEPL_API_KEY is set in the process environment
  workers,    \* bag of spawned translation threads that have not yet called main_thread
  queue,      \* continuations handed to main_thread, in the order they were queued
  out,        \* what the last step did to the host and the backend, in order
  ret,        \* what the last handler returned to the host
  step,       \* which hook, thread or host event the last step was
  scope       \* the inputs this run draws from, fixed at the start

vars == <<registry, open, hasKey, workers, queue, out, ret, step, scope>>

----------------------------------------------------------------------------
(* Bounds and input alphabets *)

\* At most this many translations are in flight (spawned or queued) at once.
MaxJobs == 2

None == <<>>
Some(x) == <<x>>

IRC_MAGENTA == "IRC_MAGENTA"
IRC_CYAN == "IRC_CYAN"

\* Chunks that hc.strip(.., StripBoth) removes.
FormatCodes == {"^B", "^C04"}

\* Message texts typed by the user or carried by incoming events.
Messages == {<<"^B", "hallo">>, <<"welt">>}

\* A text for which the host's strip returns no string.
Unstrippable == <<"^C04", "?">>

Sender == <<"Bob">>

\* The fourth field some text events carry (the "identified" text).
IdentText == <<"+">>

\* The re-entrancy marker appended to every event the plugin emits.
Marker == <<"~">>

\* The text events the plugin hooks.
HookedEvents ==
  {"Channel Message", "Channel Msg Hilight", "Channel Action",
   "Channel Action Hilight", "Private Message", "Private Message to Dialog",
   "Private Action", "Private Action to Dialog", "You Part",
   "You Part with Reason", "Disconnected"}

\* Incoming events, each <<event name, fields>>: messages with and without a
\* mode character (one of them "~"), one with a fourth field, a part and a
\* disconnect.
EventInputs ==
  {<<"Channel Message", <<Sender, <<"^B", "hallo">>>>>>,
   <<"Channel Message", <<Sender, <<"^B", "hallo">>, <<"@">>>>>>,
   <<"Channel Message", <<Sender, Unstrippable>>>>,
   <<"Channel Message", <<Sender, <<"welt">>, <<"~">>>>>>,
   <<"Channel Message", <<Sender, <<"welt">>, <<"@">>, IdentText>>>>,
        <<"You Part", <<<<"me">>, <<"me@host">>, <<"#a">>>>>>,
        <<"Disconnected", <<<<"Connection reset">>>>>>}

\* The texts the translation service may answer with.
Translations == {<<"T">>}

\* What the translation service may do with one request.
Responses ==
  {[kind |-> "json", translations |-> <<t>>] : t \in Translations}
  \cup {[kind |-> "json", translations |-> <<>>],
        [kind |-> "garbage"],
        [kind |-> "status", code |-> 403],
        [kind |-> "status", code |-> 429],
        [kind |-> "status", code |-> 500],
        [kind |-> "transport"]}

\* Language tokens typed after /SETLANG.
LangTokens == {"en", "EN", "English", "de", "German", "xx"}

\* An extra argument typed after a command.
ExtraWord == "extra"

\* The words of a /SETLANG command line.
SetLangWords ==
  {<<"SETLANG">>, <<"SETLANG", "en">>, <<"SETLANG", "en", "de", ExtraWord>>}
  \cup {<<"SETLANG", a, b>> : a \in LangTokens, b \in LangTokens}

\* word_eol of a /LSAY or /LME command line: the whole line, then the text
\* after the command name when there is one.
LSayWords(hook, texts) ==
  {<<<<hook>>>>} \cup {<<<<hook, " ">> \o m, m>> : m \in texts}

\* The contexts of the host: two channel windows whose names differ in case
\* only, and a tab for which the host reports no network.
Contexts == {"c1", "c2", "c0"}

\* A run draws its inputs from one of four scopes, fixed at its start.  The
\* command scope has every command line and no translation; the wide scope has
\* every message, event and backend response and one translation in flight at
\* a time; the deep scope has MaxJobs translations in flight at a time and
\* fewer distinct inputs.
CommandScope ==
  [cap       |-> 0,
   keys      |-> {TRUE},
   closable  |-> {"c1"},
   setlang   |-> SetLangWords,
   offlang   |-> {<<"OFFLANG">>, <<"OFFLANG", ExtraWord>>},
   listlang  |-> {<<"LISTLANG">>, <<"LISTLANG", ExtraWord>>},
   cmds      |-> {"LSAY", "LME"},
   texts     |-> Messages,
   events    |-> EventInputs,
   responses |-> Responses]

Wide ==
  [cap       |-> 1,
   keys      |-> {TRUE},
   closable  |-> {"c1"},
   setlang   |-> {<<"SETLANG", "en", "de">>, <<"SETLANG", "German", "English">>},
   offlang   |-> {<<"OFFLANG">>},
   listlang  |-> {},
   cmds      |-> {"LSAY", "LME"},
   texts     |-> Messages \cup {Unstrippable},
   events    |-> EventInputs,
   responses |-> Responses]

\* The wide scope's run without the credential in the environment.
NoKey ==
  [cap       |-> 1,
   keys      |-> {FALSE},
   closable  |-> {"c1"},
   setlang   |-> {<<"SETLANG", "en", "de">>},
   offlang   |-> {<<"OFFLANG">>},
   listlang  |-> {},
   cmds      |-> {"LSAY", "LME"},
   texts     |-> {<<"^B", "hallo">>},
   events    |-> {<<"Channel Message", <<Sender, <<"^B", "hallo">>, <<"@">>>>>>},
   responses |-> Responses]

Deep ==
  [cap       |-> MaxJobs,
   keys      |-> {TRUE},
   closable  |-> {"c1"},
   setlang   |-> {<<"SETLANG", "en", "de">>},
   offlang   |-> {<<"OFFLANG">>},
   listlang  |-> {},
   cmds      |-> {"LSAY"},
   texts     |-> {<<"^B", "hallo">>},
   events    |-> {<<"Channel Message", <<Sender, <<"welt">>>>>>},
   responses |-> {[kind |-> "json", translations |-> <<<<"T">>>>],
                  [kind |-> "status", code |-> 429]}]

Scopes == {CommandScope, Wide, NoKey, Deep}

----------------------------------------------------------------------------
(* Host interface (hexchat_api), as the plugin uses it *)

\* hc.get_info("network") / hc.get_info("channel") in context c.
get_info(c, id) ==
  CASE c = "c1" -> IF id = "network" THEN Some("net") ELSE Some("#a")
    [] c = "c2" -> IF id = "network" THEN Some("net") ELSE Some("#A")
    [] OTHER    -> IF id = "network" THEN None ELSE Some("srv")

\* Variant: a closed context is still found.
find_context_closed_too(network, channel, opn) ==
  LET found == {c \in Contexts : /\ get_info(c, "network") = Some(network)
                                 /\ get_info(c, "channel") = Some(channel)}
  IN  IF found = {} THEN None ELSE Some(CHOOSE c \in found : TRUE)

\* Variant: the context is looked up by its network alone.
find_context_by_network(network, channel, opn) ==
  LET found == {c \in opn : get_info(c, "network") = Some(network)}
  IN  IF found = {} THEN None ELSE Some(CHOOSE c \in found : TRUE)

\* hc.find_context(network, channel): the open context with that identity.
find_context(network, channel, opn) ==
  LET found == {c \in opn : /\ get_info(c, "network") = Some(network)
                            /\ get_info(c, "channel") = Some(channel)}
  IN  IF found = {} THEN None ELSE Some(CHOOSE c \in found : TRUE)

\* hc.strip(text, StripBoth) when the host returns a string.
strip(text) == SelectSeq(text, LAMBDA ch : ch \notin FormatCodes)

PrintLine(c, line) == [op |-> "print", ctx |-> c, line |-> line]

Command(c, text) == [op |-> "command", ctx |-> c, line |-> text]

EmitPrint(c, event, word) ==
  [op |-> "emit_print", ctx |-> c, event |-> event, word |-> word]

\* The window hc.print() writes to from inside a main_thread continuation.
CurrentCtx == "current"

----------------------------------------------------------------------------
(* Language catalog *)

SUPPORTED_LANGUAGES ==
  <<
    <<"Arabic", "ar">>, <<"Bulgarian", "bg">>, <<"Chinese", "zh">>,
    <<"Czech", "cs">>, <<"Danish", "da">>, <<"Dutch", "nl">>,
    <<"English", "en">>, <<"Estonian", "et">>, <<"Finnish", "fi">>,
    <<"French", "fr">>, <<"German", "de">>, <<"Greek", "el">>,
    <<"Hungarian", "hu">>, <<"Indonesian", "id">>, <<"Italian", "it">>,
    <<"Japanese", "ja">>, <<"Korean", "ko">>, <<"Latvian", "lv">>,
    <<"Lithuanian", "lt">>, <<"Norwegian", "nb">>, <<"Polish", "pl">>,
    <<"Portuguese", "pt">>, <<"Romanian", "ro">>, <<"Russian", "ru">>,
    <<"Slovak", "sk">>, <<"Slovenian", "sl">>, <<"Spanish", "es">>,
    <<"Swedish", "sv">>, <<"Turkish", "tr">>, <<"Ukrainian", "uk">>,
    <<"Hindi", "hi">>, <<"Arabic", "ar">>, <<"", "">>
  >>

\* str::to_lowercase on the strings the model handles: the catalog's display
\* names, the language tokens, and strings that are lower case already.
to_lowercase(s) ==
  CASE s = "Arabic" -> "arabic"
    [] s = "Bulgarian" -> "bulgarian"
    [] s = "Chinese" -> "chinese"
    [] s = "Czech" -> "czech"
    [] s = "Danish" -> "danish"
    [] s = "Dutch" -> "dutch"
    [] s = "English" -> "english"
    [] s = "Estonian" -> "estonian"
    [] s = "Finnish" -> "finnish"
    [] s = "French" -> "french"
    [] s = "German" -> "german"
    [] s = "Greek" -> "greek"
    [] s = "Hindi" -> "hindi"
    [] s = "Hungarian" -> "hungarian"
    [] s = "Indonesian" -> "indonesian"
    [] s = "Italian" -> "italian"
    [] s = "Japanese" -> "japanese"
    [] s = "Korean" -> "korean"
    [] s = "Latvian" -> "latvian"
    [] s = "Lithuanian" -> "lithuanian"
    [] s = "Norwegian" -> "norwegian"
    [] s = "Polish" -> "polish"
    [] s = "Portuguese" -> "portuguese"
    [] s = "Romanian" -> "romanian"
    [] s = "Russian" -> "russian"
    [] s = "Slovak" -> "slovak"
    [] s = "Slovenian" -> "slovenian"
    [] s = "Spanish" -> "spanish"
    [] s = "Swedish" -> "swedish"
    [] s = "Turkish" -> "turkish"
    [] s = "Ukrainian" -> "ukrainian"
    [] s = "EN" -> "en"
    [] s = "DE" -> "de"
    [] OTHER -> s

\* lang_info.0.to_lowercase() for every catalog entry.
LowerNames ==
  [i \in 1..Len(SUPPORTED_LANGUAGES) |-> to_lowercase(SUPPORTED_LANGUAGES[i][1])]

\* The first catalog entry whose lower-cased display name or whose code
\* equals the lower-cased token.
find_lang(lang) ==
  LET l == to_lowercase(lang)
      hits == {i \in 1..Len(SUPPORTED_LANGUAGES) :
                 \/ l = LowerNames[i]
                 \/ l = SUPPORTED_LANGUAGES[i][2]}
  IN  IF hits = {} THEN None
      ELSE Some(SUPPORTED_LANGUAGES[CHOOSE i \in hits : \A j \in hits : i <= j])

map_to_deepl_lang(lang) ==
  LET l == to_lowercase(lang)
  IN CASE l = "zh" -> "ZH"
    [] l = "en" -> "EN"
    [] l = "de" -> "DE"
    [] l = "fr" -> "FR"
    [] l = "it" -> "IT"
    [] l = "ja" -> "JA"
    [] l = "es" -> "ES"
    [] l = "nl" -> "NL"
    [] l = "pl" -> "PL"
    [] l = "pt" -> "PT"
    [] l = "ru" -> "RU"
    [] l = "bg" -> "BG"
    [] l = "cs" -> "CS"
    [] l = "da" -> "DA"
    [] l = "el" -> "EL"
    [] l = "et" -> "ET"
    [] l = "fi" -> "FI"
    [] l = "hu" -> "HU"
    [] l = "id" -> "ID"
    [] l = "lv" -> "LV"
    [] l = "lt" -> "LT"
    [] l = "ro" -> "RO"
    [] l = "sk" -> "SK"
    [] l = "sl" -> "SL"
    [] l = "sv" -> "SV"
    [] l = "tr" -> "TR"
    [] l = "uk" -> "UK"
    [] l = "ar" -> "AR"
    [] l = "hi" -> "HI"
    [] l = "ko" -> "KO"
    [] l = "nb" -> "NB"
    [] l = "no" -> "NB"
    [] OTHER -> lang

----------------------------------------------------------------------------
(* Session registry *)

\* ChanMap::get
MapGet(reg, key) == IF key \in DOMAIN reg THEN Some(reg[key]) ELSE None

\* Variant: an existing entry is kept.
MapInsert_if_absent(reg, key, val) ==
  [k \in DOMAIN reg \cup {key} |-> IF k \in DOMAIN reg THEN reg[k] ELSE val]

\* ChanMap::insert
MapInsert(reg, key, val) ==
  [k \in DOMAIN reg \cup {key} |-> IF k = key THEN val ELSE reg[k]]

\* Variant: channel names are compared without regard to case.
MapRemove_ignore_case(reg, key) ==
  LET lower(ch) == IF ch = "#A" THEN "#a" ELSE ch
  IN  [k \in {x \in DOMAIN reg : ~(x[1] = key[1] /\ lower(x[2]) = lower(key[2]))}
         |-> reg[k]]

\* Variant: nothing is removed.
MapRemove_nothing(reg, key) == reg

\* ChanMap::remove
MapRemove(reg, key) == [k \in DOMAIN reg \ {key} |-> reg[k]]

\* Variant: the lookup matches on the network alone.
get_channel_langs_by_network(c, reg) ==
  LET network == get_info(c, "network")
      channel == get_info(c, "channel")
      hits    == {k \in DOMAIN reg : k[1] = network[1]}
  IN  IF network = None \/ channel = None THEN None
      ELSE IF hits = {} THEN None
      ELSE Some(reg[CHOOSE k \in hits : TRUE])

\* The pair stored for context c, if it has network and channel and an entry.
get_channel_langs(c, reg) ==
  LET network == get_info(c, "network")
      channel == get_info(c, "channel")
  IN  IF network = None \/ channel = None THEN None
      ELSE MapGet(reg, <<network[1], channel[1]>>)

activate(c, reg, source, dest) ==
  LET network == get_info(c, "network")
      channel == get_info(c, "channel")
  IN  IF network = None \/ channel = None
      THEN [reg |-> reg,
            out |-> <<PrintLine(c, <<IRC_MAGENTA,
                     "Failed to get channel information during activation.">>)>>]
      ELSE [reg |-> MapInsert(reg, <<network[1], channel[1]>>, <<source, dest>>),
            out |-> <<>>]

\* Variant: only a session that holds the pair (en, de) is removed.
deactivate_if_pair(c, reg) ==
  LET network == get_info(c, "network")
      channel == get_info(c, "channel")
  IN  IF network = None \/ channel = None
      THEN [reg |-> reg,
            out |-> <<PrintLine(c, <<IRC_MAGENTA,
                     "Failed to get channel information during deactivation.">>)>>]
      ELSE [reg |-> IF MapGet(reg, <<network[1], channel[1]>>) = Some(<<"en", "de">>)
                    THEN MapRemove(reg, <<network[1], channel[1]>>)
                    ELSE reg,
            out |-> <<>>]

\* Variant: removing an entry that is not there is reported.
deactivate_reports_absent(c, reg) ==
  LET network == get_info(c, "network")
      channel == get_info(c, "channel")
  IN  IF network = None \/ channel = None
         \/ <<network[1], channel[1]>> \notin DOMAIN reg
      THEN [reg |-> reg,
            out |-> <<PrintLine(c, <<IRC_MAGENTA,
                     "Failed to get channel information during deactivation.">>)>>]
      ELSE [reg |-> MapRemove(reg, <<network[1], channel[1]>>),
            out |-> <<>>]

deactivate(c, reg) ==
  LET network == get_info(c, "network")
      channel == get_info(c, "channel")
  IN  IF network = None \/ channel = None
      THEN [reg |-> reg,
            out |-> <<PrintLine(c, <<IRC_MAGENTA,
                     "Failed to get channel information during deactivation.">>)>>]
      ELSE [reg |-> MapRemove(reg, <<network[1], channel[1]>>),
            out |-> <<>>]

----------------------------------------------------------------------------
(* Command handlers.  A handler yields the registry it leaves, the host     *)
(* calls it made, its return value and the closures it handed to            *)
(* thread::spawn.                                                           *)

SETLANG_HELP == "/SETLANG <src> <tgt> - Sets source and target languages for the channel."

OFFLANG_HELP == "/OFFLANG - Deactivates translation on the channel. This command takes no paramters."

BasicFailure ==
  "Translator Error: Basic failure retrieving channel information, or unable to strip original message."

\* Variant: the two languages are not compared.
params_good_any_pair(src_lang_info, tgt_lang_info) ==
  /\ src_lang_info # None
  /\ tgt_lang_info # None

\* Both tokens are in the catalog and name different entries.
params_good(src_lang_info, tgt_lang_info) ==
  /\ src_lang_info # None
  /\ tgt_lang_info # None
  /\ src_lang_info[1] # tgt_lang_info[1]

\* Variant: the tokens are stored as typed, not as the catalog's codes.
on_cmd_setlang_as_typed(c, word, reg) ==
  IF Len(word) = 3
  THEN IF params_good(find_lang(word[2]), find_lang(word[3]))
       THEN LET src_lang_info == find_lang(word[2])[1]
                tgt_lang_info == find_lang(word[3])[1]
                act == activate(c, reg, word[2], word[3])
            IN  [reg |-> act.reg,
                 out |-> act.out \o
                   <<PrintLine(c, <<IRC_MAGENTA,
                       "TRANSLATION IS ON FOR THIS CHANNEL! ",
                       src_lang_info[1], " (you) to ",
                       tgt_lang_info[1], " (them).">>)>>,
                 eat |-> "Eat::All", spawn |-> <<>>]
       ELSE [reg |-> reg,
             out |-> <<PrintLine(c, <<IRC_MAGENTA, "BAD LANGUAGE PARAMETERS. ">>)>>,
             eat |-> "Eat::All", spawn |-> <<>>]
  ELSE [reg |-> reg,
        out |-> <<PrintLine(c, <<"USAGE: ", SETLANG_HELP>>)>>,
        eat |-> "Eat::All", spawn |-> <<>>]

on_cmd_setlang(c, word, reg) ==
  IF Len(word) = 3
  THEN IF params_good(find_lang(word[2]), find_lang(word[3]))
       THEN LET src_lang_info == find_lang(word[2])[1]
                tgt_lang_info == find_lang(word[3])[1]
                act == activate(c, reg, src_lang_info[2], tgt_lang_info[2])
            IN  [reg |-> act.reg,
                 out |-> act.out \o
                   <<PrintLine(c, <<IRC_MAGENTA,
                       "TRANSLATION IS ON FOR THIS CHANNEL! ",
                       src_lang_info[1], " (you) to ",
                       tgt_lang_info[1], " (them).">>)>>,
                 eat |-> "Eat::All", spawn |-> <<>>]
       ELSE [reg |-> reg,
             out |-> <<PrintLine(c, <<IRC_MAGENTA, "BAD LANGUAGE PARAMETERS. ">>)>>,
             eat |-> "Eat::All", spawn |-> <<>>]
  ELSE [reg |-> reg,
        out |-> <<PrintLine(c, <<"USAGE: ", SETLANG_HELP>>)>>,
        eat |-> "Eat::All", spawn |-> <<>>]

on_cmd_offlang(c, word, reg) ==
  IF Len(word) = 1
  THEN LET de == deactivate(c, reg)
       IN  [reg |-> de.reg,
            out |-> de.out \o
              <<PrintLine(c, <<IRC_MAGENTA,
                  "Translation turned OFF for this channel.">>)>>,
            eat |-> "Eat::All", spawn |-> <<>>]
  ELSE [reg |-> reg,
        out |-> <<PrintLine(c, <<"USAGE: ", OFFLANG_HELP>>)>>,
        eat |-> "Eat::All", spawn |-> <<>>]

\* The rows of the language table: three catalog entries per printed line.
ListRows(c) ==
  [r \in 1..(Len(SUPPORTED_LANGUAGES) \div 3) |->
     PrintLine(c, <<IRC_CYAN>>
       \o SUPPORTED_LANGUAGES[3 * r - 2]
       \o SUPPORTED_LANGUAGES[3 * r - 1]
       \o SUPPORTED_LANGUAGES[3 * r])]

on_cmd_listlang(c, word, reg) ==
  IF Len(word) = 1
  THEN [reg |-> reg,
        out |-> <<PrintLine(c, <<"">>),
                  PrintLine(c, <<IRC_CYAN, "Supported Languages">>)>>
                \o ListRows(c) \o <<PrintLine(c, <<"">>)>>,
        eat |-> "Eat::All", spawn |-> <<>>]
  ELSE [reg |-> reg,
        out |-> <<PrintLine(c, <<"USAGE: ">>)>>,
        eat |-> "Eat::All", spawn |-> <<>>]

\* The command name in the user data of the LSAY and of the LME hook.
lsay_udata(hook) == IF hook = "LSAY" THEN "SAY" ELSE "ME"

\* What hc.strip() hands back: the stripped text, or nothing when the host
\* returns no string.
host_strip(message) ==
  IF message = Unstrippable THEN None ELSE Some(strip(message))

\* word_eol[2] is the text after the command name (word_eol[1] in the code,
\* which counts from 0); reading it when no text was typed panics.
try_on_cmd_lsay(c, cmd, word_eol, reg) ==
  LET chan_langs == get_channel_langs(c, reg)
  IN  IF chan_langs # None
      THEN IF Len(word_eol) < 2
           THEN [res |-> "panic", eat |-> "panic", spawn |-> <<>>]
           ELSE LET message   == word_eol[2]
                    strip_msg == host_strip(message)
                    network   == get_info(c, "network")
                    channel   == get_info(c, "channel")
                IN  IF strip_msg = None \/ network = None \/ channel = None
                    THEN [res |-> "none", eat |-> "none", spawn |-> <<>>]
                    ELSE [res |-> "some", eat |-> "Eat::All",
                          spawn |-> <<[kind      |-> "cmd",
                                       name      |-> cmd,
                                       network   |-> network[1],
                                       channel   |-> channel[1],
                                       src_lang  |-> chan_langs[1][1],
                                       tgt_lang  |-> chan_langs[1][2],
                                       message   |-> message,
                                       strip_msg |-> strip_msg[1],
                                       sender    |-> <<>>,
                                       mode_char |-> <<>>]>>]
      ELSE [res |-> "some", eat |-> "Eat::None", spawn |-> <<>>]

on_cmd_lsay(c, cmd, word_eol, reg) ==
  LET try == try_on_cmd_lsay(c, cmd, word_eol, reg)
  IN  IF try.res = "none"
      THEN [reg |-> reg,
            out |-> <<PrintLine(c, <<IRC_MAGENTA, BasicFailure>>)>>,
            eat |-> "Eat::All", spawn |-> <<>>]
      ELSE [reg |-> reg, out |-> <<>>, eat |-> try.eat, spawn |-> try.spawn]

----------------------------------------------------------------------------
(* Text-event handler *)

\* Variant: the trailing marker is not looked at.
pass_through_length_only(word) == Len(word) < 2

\* The event has fewer than two fields or ends with the marker.
pass_through(word) == Len(word) < 2 \/ word[Len(word)] = Marker

\* Variant: the events about the user's own departure are never translated.
try_on_recv_message_by_kind(c, event, word, reg) ==
  IF pass_through(word)
     \/ event \in {"You Part", "You Part with Reason", "Disconnected"}
  THEN [res |-> "some", eat |-> "Eat::None", spawn |-> <<>>]
  ELSE LET chan_langs == get_channel_langs(c, reg)
       IN  IF chan_langs # None
           THEN LET sender    == word[1]
                    message   == word[2]
                    mode_char == IF Len(word) > 2 THEN word[3] ELSE <<>>
                    strip_msg == host_strip(message)
                    network   == get_info(c, "network")
                    channel   == get_info(c, "channel")
                IN  IF strip_msg = None \/ network = None \/ channel = None
                    THEN [res |-> "none", eat |-> "none", spawn |-> <<>>]
                    ELSE [res |-> "some", eat |-> "Eat::Hexchat",
                          spawn |-> <<[kind      |-> "event",
                                       name      |-> event,
                                       network   |-> network[1],
                                       channel   |-> channel[1],
                                       src_lang  |-> chan_langs[1][1],
                                       tgt_lang  |-> chan_langs[1][2],
                                       message   |-> message,
                                       strip_msg |-> strip_msg[1],
                                       sender    |-> sender,
                                       mode_char |-> mode_char]>>]
           ELSE [res |-> "some", eat |-> "Eat::None", spawn |-> <<>>]

try_on_recv_message(c, event, word, reg) ==
  IF pass_through(word)
  THEN [res |-> "some", eat |-> "Eat::None", spawn |-> <<>>]
  ELSE LET chan_langs == get_channel_langs(c, reg)
       IN  IF chan_langs # None
           THEN LET sender    == word[1]
                    message   == word[2]
                    mode_char == IF Len(word) > 2 THEN word[3] ELSE <<>>
                    strip_msg == host_strip(message)
                    network   == get_info(c, "network")
                    channel   == get_info(c, "channel")
                IN  IF strip_msg = None \/ network = None \/ channel = None
                    THEN [res |-> "none", eat |-> "none", spawn |-> <<>>]
                    ELSE [res |-> "some", eat |-> "Eat::Hexchat",
                          spawn |-> <<[kind      |-> "event",
                                       name      |-> event,
                                       network   |-> network[1],
                                       channel   |-> channel[1],
                                       src_lang  |-> chan_langs[1][1],
                                       tgt_lang  |-> chan_langs[1][2],
                                       message   |-> message,
                                       strip_msg |-> strip_msg[1],
                                       sender    |-> sender,
                                       mode_char |-> mode_char]>>]
           ELSE [res |-> "some", eat |-> "Eat::None", spawn |-> <<>>]

\* Variant: leaving the channel or losing the connection ends the session.
on_recv_message_cleanup(c, event, word, reg) ==
  IF event \in {"You Part", "You Part with Reason", "Disconnected"}
  THEN [reg |-> deactivate(c, reg).reg, out |-> <<>>,
        eat |-> "Eat::None", spawn |-> <<>>]
  ELSE LET try == try_on_recv_message(c, event, word, reg)
       IN  IF try.res = "none"
           THEN [reg |-> reg,
                 out |-> <<PrintLine(c, <<IRC_MAGENTA, BasicFailure>>)>>,
                 eat |-> "Eat::Hexchat", spawn |-> <<>>]
           ELSE [reg |-> reg, out |-> <<>>, eat |-> try.eat, spawn |-> try.spawn]

on_recv_message(c, event, word, reg) ==
  LET try == try_on_recv_message(c, event, word, reg)
  IN  IF try.res = "none"
      THEN [reg |-> reg,
            out |-> <<PrintLine(c, <<IRC_MAGENTA, BasicFailure>>)>>,
            eat |-> "Eat::Hexchat", spawn |-> <<>>]
      ELSE [reg |-> reg, out |-> <<>>, eat |-> try.eat, spawn |-> try.spawn]

----------------------------------------------------------------------------
(* Translation backend *)

\* Variant: only HTTP 403 counts as a rate limit.
is_over_limit_403_only(resp) == resp.kind = "status" /\ resp.code = 403

\* Variant: every HTTP error status counts as a rate limit.
is_over_limit_any_status(resp) == resp.kind = "status"

\* The request failed with HTTP status 403 or 429.
is_over_limit(resp) ==
  resp.kind = "status" /\ (resp.code = 403 \/ resp.code = 429)

\* The body of the POST request.
DeepLRequest(text, source, target) ==
  [op          |-> "post",
   text        |-> <<text>>,
   source_lang |-> IF map_to_deepl_lang(source) = "auto" THEN None
                   ELSE Some(map_to_deepl_lang(source)),
   target_lang |-> map_to_deepl_lang(target)]

\* fmt::Display of the ureq error: the status code, or the transport failure.
ErrorText(resp) ==
  CASE resp.kind = "status" /\ resp.code = 403 -> "status code 403"
    [] resp.kind = "status" /\ resp.code = 429 -> "status code 429"
    [] resp.kind = "status" -> "status code 500"
    [] OTHER -> "transport error"

\* Variant: the error does not carry the text that was to be translated.
TranslationError_no_partial(partial_trans, error_msg, over_limit) ==
  [ok |-> FALSE, text |-> <<>>, error_msg |-> error_msg,
   over_limit |-> over_limit]

TranslationError(partial_trans, error_msg, over_limit) ==
  [ok |-> FALSE, text |-> partial_trans, error_msg |-> error_msg,
   over_limit |-> over_limit]

\* One call of deepl_translate, given whether the credential is set and what
\* the service does with the request.
deepl_translate(text, source, target, key, resp) ==
  IF ~key
  THEN TranslationError(text, <<"DeepL API key not found.">>, FALSE)
  ELSE CASE resp.kind = "json" ->
              IF Len(resp.translations) > 0
              THEN [ok |-> TRUE, text |-> resp.translations[1],
                    error_msg |-> <<>>, over_limit |-> FALSE]
              ELSE TranslationError(text,
                     <<"No translation returned from DeepL API">>, FALSE)
         [] resp.kind = "garbage" ->
              TranslationError(text, <<"Failed to parse DeepL response: ">>, FALSE)
         [] OTHER ->
              TranslationError(text,
                <<"DeepL API request failed: ", ErrorText(resp)>>,
                is_over_limit(resp))

\* fmt::Display for TranslationError
Display(err) == <<"Translation Error: ">> \o err.error_msg

\* The languages a worker passes to deepl_translate: the stored pair for a
\* command, the reversed pair for an incoming event.
CallSource(job) == IF job.kind = "cmd" THEN job.src_lang ELSE job.tgt_lang

\* Variant: an incoming event is translated in the stored direction.
CallTarget_as_stored(job) == job.tgt_lang

CallTarget(job) == IF job.kind = "cmd" THEN job.tgt_lang ELSE job.src_lang

\* Variant: the closure carries the stripped text as the original message.
worker_stripped_original(job, key, resp) ==
  LET r == deepl_translate(job.strip_msg, CallSource(job), CallTarget(job), key, resp)
  IN  [kind          |-> job.kind,
       name          |-> job.name,
       network       |-> job.network,
       channel       |-> job.channel,
       message       |-> job.strip_msg,
       sender        |-> job.sender,
       mode_char     |-> job.mode_char,
       msg           |-> r.text,
       emsg          |-> IF r.ok THEN None ELSE Some(<<IRC_MAGENTA>> \o Display(r)),
       is_over_limit |-> IF r.ok THEN FALSE ELSE r.over_limit]

\* The body of the spawned thread up to main_thread(): the closure it queues.
worker(job, key, resp) ==
  LET r == deepl_translate(job.strip_msg, CallSource(job), CallTarget(job), key, resp)
  IN  [kind          |-> job.kind,
       name          |-> job.name,
       network       |-> job.network,
       channel       |-> job.channel,
       message       |-> job.message,
       sender        |-> job.sender,
       mode_char     |-> job.mode_char,
       msg           |-> r.text,
       emsg          |-> IF r.ok THEN None ELSE Some(<<IRC_MAGENTA>> \o Display(r)),
       is_over_limit |-> IF r.ok THEN FALSE ELSE r.over_limit]

\* Variant: the worker reads the window's pair when it calls the backend.
worker_out_current_pair(job, key) ==
  LET k    == <<job.network, job.channel>>
      pair == IF k \in DOMAIN registry THEN registry[k]
              ELSE <<job.src_lang, job.tgt_lang>>
      s    == IF job.kind = "cmd" THEN pair[1] ELSE pair[2]
      d    == IF job.kind = "cmd" THEN pair[2] ELSE pair[1]
  IN  <<[op |-> "deepl_translate", text |-> job.strip_msg,
         source |-> s, target |-> d]>>
      \o (IF key THEN <<DeepLRequest(job.strip_msg, s, d)>> ELSE <<>>)

\* Variant: the worker calls the backend a second time.
worker_out_twice(job, key) ==
  <<[op |-> "deepl_translate", text |-> job.strip_msg,
     source |-> CallSource(job), target |-> CallTarget(job)],
    [op |-> "deepl_translate", text |-> job.strip_msg,
     source |-> CallSource(job), target |-> CallTarget(job)]>>

\* What the worker did to the backend: the call, and the request if one is sent.
worker_out(job, key) ==
  <<[op |-> "deepl_translate", text |-> job.strip_msg,
     source |-> CallSource(job), target |-> CallTarget(job)]>>
  \o (IF key
      THEN <<DeepLRequest(job.strip_msg, CallSource(job), CallTarget(job))>>
      ELSE <<>>)

----------------------------------------------------------------------------
(* Continuations run by main_thread on the control thread *)

\* ctx.command(text): the host runs the command in context c.  OFFLANG is
\* hooked by the plugin; SAY and ME are the host's own.
host_command(c, text, reg) ==
  IF text = <<"OFFLANG">>
  THEN LET h == on_cmd_offlang(c, <<"OFFLANG">>, reg)
       IN  [reg |-> h.reg, out |-> <<Command(c, text)>> \o h.out]
  ELSE [reg |-> reg, out |-> <<Command(c, text)>>]

\* ctx.emit_print(event, word): the host runs the print hooks, the plugin's
\* among them, before it renders the event.
host_emit_print(c, event, word, reg) ==
  LET h == on_recv_message(c, event, word, reg)
  IN  [reg |-> h.reg, out |-> <<EmitPrint(c, event, word)>> \o h.out,
       eat |-> h.eat, spawn |-> h.spawn]

\* The error annotation and, when over the limit, the OFFLANG command.
report_error(c, cont, reg) ==
  IF cont.emsg # None
  THEN IF cont.is_over_limit
       THEN LET off == host_command(c, <<"OFFLANG">>, reg)
            IN  [reg |-> off.reg, out |-> <<PrintLine(c, cont.emsg[1])>> \o off.out]
       ELSE [reg |-> reg, out |-> <<PrintLine(c, cont.emsg[1])>>]
  ELSE [reg |-> reg, out |-> <<>>]

\* Variant: the original message is printed before the translation is sent.
deliver_cmd_echo_first(cont, reg, opn) ==
  LET ctx == find_context(cont.network, cont.channel, opn)
  IN  IF ctx # None
      THEN LET send == host_command(ctx[1], <<cont.name, " ">> \o cont.msg, reg)
               echo == <<PrintLine(ctx[1], <<IRC_CYAN>> \o cont.message)>>
               err  == report_error(ctx[1], cont, send.reg)
           IN  [reg |-> err.reg, out |-> echo \o send.out \o err.out,
                spawn |-> <<>>]
      ELSE [reg |-> reg,
            out |-> <<PrintLine(CurrentCtx, <<IRC_MAGENTA, "Failed to get context.">>)>>,
            spawn |-> <<>>]

\* The closure of try_on_cmd_lsay.
deliver_cmd(cont, reg, opn) ==
  LET ctx == find_context(cont.network, cont.channel, opn)
  IN  IF ctx # None
      THEN LET send == host_command(ctx[1], <<cont.name, " ">> \o cont.msg, reg)
               echo == <<PrintLine(ctx[1], <<IRC_CYAN>> \o cont.message)>>
               err  == report_error(ctx[1], cont, send.reg)
           IN  [reg |-> err.reg, out |-> send.out \o echo \o err.out,
                spawn |-> <<>>]
      ELSE [reg |-> reg,
            out |-> <<PrintLine(CurrentCtx, <<IRC_MAGENTA, "Failed to get context.">>)>>,
            spawn |-> <<>>]

\* The fields of the re-emitted event.
emit_word(cont) ==
  IF cont.mode_char # <<>>
  THEN <<cont.sender, cont.msg, cont.mode_char, Marker>>
  ELSE <<cont.sender, cont.msg, Marker>>

\* The closure of try_on_recv_message.
deliver_event(cont, reg, opn) ==
  LET ctx == find_context(cont.network, cont.channel, opn)
  IN  IF ctx # None
      THEN LET emit == host_emit_print(ctx[1], cont.name, emit_word(cont), reg)
               echo == <<PrintLine(ctx[1], <<IRC_CYAN>> \o cont.message)>>
               err  == report_error(ctx[1], cont, emit.reg)
           IN  [reg |-> err.reg, out |-> emit.out \o echo \o err.out,
                spawn |-> emit.spawn]
      ELSE [reg |-> reg,
            out |-> <<PrintLine(CurrentCtx, <<"Failed to get context.">>)>>,
            spawn |-> <<>>]

\* Variant: the result of a session that was turned off meanwhile is dropped.
deliver_unless_deactivated(cont, reg, opn) ==
  IF <<cont.network, cont.channel>> \notin DOMAIN reg
  THEN [reg |-> reg, out |-> <<>>, spawn |-> <<>>]
  ELSE IF cont.kind = "cmd" THEN deliver_cmd(cont, reg, opn)
  ELSE deliver_event(cont, reg, opn)

deliver(cont, reg, opn) ==
  IF cont.kind = "cmd" THEN deliver_cmd(cont, reg, opn)
  ELSE deliver_event(cont, reg, opn)

----------------------------------------------------------------------------
(* State machine *)

\* The translations in flight: threads still translating, closures queued.
InFlight == BagCardinality(workers) + Len(queue)

\* The closures handed to thread::spawn, as a bag of threads.
Spawned(spawn) == IF spawn = <<>> THEN EmptyBag ELSE SetToBag({spawn[1]})

Init ==
  /\ scope \in Scopes
  /\ registry = <<>>
  /\ open = Contexts
  /\ hasKey \in scope.keys
  /\ workers = EmptyBag
  /\ queue = <<>>
  /\ out = <<>>
  /\ ret = "none"
  /\ step = "init"

\* A handler h ran on the control thread in response to a command or event;
\* a handler that spawns a thread runs only while the scope has room for it.
Handled(hook, h) ==
  /\ InFlight + Len(h.spawn) <= scope.cap
  /\ step' = hook
  /\ registry' = h.reg
  /\ workers' = workers (+) Spawned(h.spawn)
  /\ out' = h.out
  /\ ret' = h.eat
  /\ UNCHANGED <<open, hasKey, queue, scope>>

SetLang ==
  \E c \in open, word \in scope.setlang :
    Handled("SETLANG", on_cmd_setlang(c, word, registry))

OffLang ==
  \E c \in open, word \in scope.offlang :
    Handled("OFFLANG", on_cmd_offlang(c, word, registry))

ListLang ==
  \E c \in open, word \in scope.listlang :
    Handled("LISTLANG", on_cmd_listlang(c, word, registry))

LSay ==
  \E c \in open, hook \in scope.cmds :
    \E word_eol \in LSayWords(hook, scope.texts) :
      Handled(hook, on_cmd_lsay(c, lsay_udata(hook), word_eol, registry))

RecvMessage ==
  \E c \in open, ev \in scope.events :
    Handled(ev[1], on_recv_message(c, ev[1], ev[2], registry))

\* A worker thread calls the backend and queues its closure for the control
\* thread.
Worker ==
  \E job \in BagToSet(workers), resp \in scope.responses :
    /\ workers' = workers (-) SetToBag({job})
    /\ queue' = Append(queue, worker(job, hasKey, resp))
    /\ out' = worker_out(job, hasKey)
    /\ ret' = "none"
    /\ step' = "worker"
    /\ UNCHANGED <<registry, open, hasKey, scope>>

\* The control thread runs the oldest queued closure.
Deliver ==
  /\ queue # <<>>
  /\ LET d == deliver(Head(queue), registry, open)
     IN  /\ registry' = d.reg
         /\ workers' = workers (+) Spawned(d.spawn)
         /\ out' = d.out
  /\ queue' = Tail(queue)
  /\ ret' = "none"
  /\ step' = "main_thread"
  /\ UNCHANGED <<open, hasKey, scope>>

\* The user closes a window, or parts the channel / loses the connection.
CloseContext ==
  \E c \in open \cap scope.closable :
    /\ open' = open \ {c}
    /\ out' = <<>>
    /\ ret' = "none"
    /\ step' = "close"
    /\ UNCHANGED <<registry, hasKey, workers, queue, scope>>

\* The user opens the window again.
OpenContext ==
  \E c \in scope.closable \ open :
    /\ open' = open \cup {c}
    /\ out' = <<>>
    /\ ret' = "none"
    /\ step' = "open"
    /\ UNCHANGED <<registry, hasKey, workers, queue, scope>>

Next ==
  \/ SetLang
  \/ OffLang
  \/ ListLang
  \/ LSay
  \/ RecvMessage
  \/ Worker
  \/ Deliver
  \/ CloseContext
  \/ OpenContext

Spec == Init /\ [][Next]_vars

\* The scope of the fair runs: several translations in flight, one input
\* of each kind.
Live ==
  [cap       |-> MaxJobs,
   keys      |-> {TRUE},
   closable  |-> {"c1"},
   setlang   |-> {<<"SETLANG", "en", "de">>},
   offlang   |-> {<<"OFFLANG">>},
   listlang  |-> {<<"LISTLANG">>},
   cmds      |-> {"LSAY"},
   texts     |-> {<<"^B", "hallo">>},
   events    |-> {<<"Channel Message", <<Sender, <<"welt">>>>>>},
   responses |-> {[kind |-> "json", translations |-> <<<<"T">>>>],
                  [kind |-> "status", code |-> 429]}]

\* The fair runs start with one window open.
LiveInit ==
  /\ scope = Live
  /\ registry = <<>>
  /\ open = {"c1"}
  /\ hasKey \in scope.keys
  /\ workers = EmptyBag
  /\ queue = <<>>
  /\ out = <<>>
  /\ ret = "none"
  /\ step = "init"

\* The language pairs SETLANG stores from the words of scope sc.
StoredPairs(sc) ==
  {<<find_lang(w[2])[1][2], find_lang(w[3])[1][2]>> :
     w \in {v \in sc.setlang :
              Len(v) = 3 /\ params_good(find_lang(v[2]), find_lang(v[3]))}}

\* The windows of the fair runs that have a network and a channel.
KeyedWindows == {"c1"}

\* Every closure the handlers hand to thread::spawn under scope sc.
Jobs(sc) ==
  UNION {
    LET reg == [k \in {<<get_info(cp[1], "network")[1],
                         get_info(cp[1], "channel")[1]>>} |-> cp[2]]
    IN  {on_cmd_lsay(cp[1], lsay_udata(hook), <<<<hook, " ">> \o m, m>>, reg).spawn :
           hook \in sc.cmds, m \in sc.texts \ {Unstrippable}}
        \cup {on_recv_message(cp[1], ev[1], ev[2], reg).spawn : ev \in sc.events}
    : cp \in KeyedWindows \X StoredPairs(sc)} \ {<<>>}

LiveJobs == {j[1] : j \in Jobs(Live)}

\* The spawned thread of one closure runs to its main_thread() call.
WorkerOf(job) == Worker /\ workers' = workers (-) SetToBag({job})

\* Every spawned thread is scheduled, and the host keeps running the closures
\* queued for its main thread.
Fairness ==
  /\ \A job \in LiveJobs : WF_vars(WorkerOf(job))
  /\ WF_vars(Deliver)

FairSpec == LiveInit /\ [][Next]_vars /\ Fairness

----------------------------------------------------------------------------
(* Vocabulary of the properties *)

\* The step just taken ran a continuation on the control thread, a worker
\* thread, or one of the plugin's hooks.
DeliverStep == step' = "main_thread"

WorkerStep == step' = "worker"

HookNames == {"SETLANG", "OFFLANG", "LISTLANG", "LSAY", "LME"} \cup HookedEvents

\* The continuation a DeliverStep runs.
Delivered == Head(queue)

\* The thread a WorkerStep finishes.
Translated == CHOOSE job \in BagToSet(workers) : workers (-) SetToBag({job}) = workers'

KeyOf(cont) == <<cont.network, cont.channel>>

\* The windows whose network and channel are those of the continuation.
WindowsOf(cont) ==
  {c \in open : /\ get_info(c, "network") = <<cont.network>>
                /\ get_info(c, "channel") = <<cont.channel>>}

Locatable(cont) == WindowsOf(cont) # {}

WindowOf(cont) == CHOOSE c \in WindowsOf(cont) : TRUE

\* Context c has a session in registry reg.
HasSession(c, reg) ==
  /\ get_info(c, "network") # <<>>
  /\ get_info(c, "channel") # <<>>
  /\ <<get_info(c, "network")[1], get_info(c, "channel")[1]>> \in DOMAIN reg

SessionOf(c, reg) == reg[<<get_info(c, "network")[1], get_info(c, "channel")[1]>>]

RequestFailedLine(detail) ==
  <<IRC_MAGENTA, "Translation Error: ", "DeepL API request failed: ", detail>>

RateLimitLines ==
  {RequestFailedLine("status code 403"), RequestFailedLine("status code 429")}

Failed(cont) == cont.emsg # <<>>

RateLimited(cont) == Failed(cont) /\ cont.emsg[1] \in RateLimitLines

OriginalLine(cont) == <<IRC_CYAN>> \o cont.message

\* The fields of the event a continuation re-emits with text t.
ReEmitted(cont, t) ==
  <<cont.sender, t>>
  \o (IF cont.mode_char # <<>> THEN <<cont.mode_char>> ELSE <<>>)
  \o <<Marker>>

\* The first host call of a delivery that carries text t to the channel (a
\* command) or to the window (an event).
Carries(cont, t) ==
  IF cont.kind = "cmd"
  THEN Command(WindowOf(cont), <<cont.name, " ">> \o t)
  ELSE EmitPrint(WindowOf(cont), cont.name, ReEmitted(cont, t))

NotHandled == [reg |-> registry, out |-> <<>>, eat |-> "Eat::None", spawn |-> <<>>]

AllTexts == Messages \cup {Unstrippable}

----------------------------------------------------------------------------
(* Properties *)

C2_MessageNotLost ==
  [][(DeliverStep /\ Failed(Delivered) /\ Locatable(Delivered))
       => /\ Len(out') >= 3
          /\ out'[1] = Carries(Delivered, strip(Delivered.message))
          /\ out'[2] = PrintLine(WindowOf(Delivered), OriginalLine(Delivered))
          /\ out'[3] = PrintLine(WindowOf(Delivered), Delivered.emsg[1])]_vars

C2_Witness ==
  /\ step = "main_thread"
  /\ Len(out) >= 3
  /\ out[1].op = "emit_print"
  /\ out[1].word[2] = <<"hallo">>
  /\ out[2] = PrintLine(out[1].ctx, <<IRC_CYAN, "^B", "hallo">>)
  /\ out[3].line[2] = "Translation Error: "

\* C3: the continuation of a translation that failed for a reason other than
\* HTTP 403/429 leaves the registry as it was.
C3_FailureKeepsSession ==
  [][(DeliverStep /\ Failed(Delivered) /\ ~RateLimited(Delivered))
       => registry' = registry]_vars

C3_Witness ==
  /\ step = "main_thread"
  /\ \E i \in 1..Len(out) :
       /\ out[i].op = "print"
       /\ out[i].line = RequestFailedLine("status code 500")
       /\ HasSession(out[i].ctx, registry)

\* C4 (dispatch): LSAY / LME with text, in a window whose session is (s, t),
\* hands one thread the command name SAY / ME, the window's identity, the
\* pair (s, t), the message and its format-stripped text.
C4_Dispatch ==
  \A c \in Contexts, hook \in {"LSAY", "LME"}, m \in Messages :
    HasSession(c, registry) =>
      LET h == on_cmd_lsay(c, lsay_udata(hook), <<<<hook, " ">> \o m, m>>, registry)
      IN  /\ h.eat = "Eat::All"
          /\ h.reg = registry
          /\ h.out = <<>>
          /\ h.spawn =
               <<[kind      |-> "cmd",
                  name      |-> IF hook = "LSAY" THEN "SAY" ELSE "ME",
                  network   |-> get_info(c, "network")[1],
                  channel   |-> get_info(c, "channel")[1],
                  src_lang  |-> SessionOf(c, registry)[1],
                  tgt_lang  |-> SessionOf(c, registry)[2],
                  message   |-> m,
                  strip_msg |-> strip(m),
                  sender    |-> <<>>,
                  mode_char |-> <<>>]>>

\* C4 (steps): the worker of a command calls the backend once with (stripped
\* text, s, t); on success, with the window open, the continuation issues
\* exactly SAY / ME with the translation and then prints the original message,
\* and nothing else.
C4_Steps ==
  /\ (WorkerStep /\ Translated.kind = "cmd")
       => /\ out'[1] = [op |-> "deepl_translate", text |-> Translated.strip_msg,
                        source |-> Translated.src_lang,
                        target |-> Translated.tgt_lang]
          /\ Cardinality({i \in 1..Len(out') : out'[i].op = "deepl_translate"}) = 1
  /\ (DeliverStep /\ Delivered.kind = "cmd" /\ ~Failed(Delivered)
        /\ Locatable(Delivered))
       => /\ Delivered.msg \in Translations
          /\ Delivered.name \in {"SAY", "ME"}
          /\ out' = <<Command(WindowOf(Delivered),
                              <<Delivered.name, " ">> \o Delivered.msg),
                      PrintLine(WindowOf(Delivered), OriginalLine(Delivered))>>

\* C4: outgoing end-to-end.
C4_OutgoingEndToEnd == [](C4_Dispatch) /\ [][C4_Steps]_vars

C4_Witness ==
  /\ step = "main_thread"
  /\ Len(out) = 2
  /\ out[1] = Command("c2", <<"ME", " ", "T">>)
  /\ out[2] = PrintLine("c2", <<IRC_CYAN, "^B", "hallo">>)

\* C5 (dispatch): a text event with at least two fields and no trailing
\* marker, in a window whose session is (s, t), is eaten from the host's
\* renderer and hands one thread the event name, sender, message, mode
\* character (if there is a third field) and the pair.
C5_Dispatch ==
  \A c \in Contexts, ev \in EventInputs :
    (/\ HasSession(c, registry)
     /\ Len(ev[2]) >= 2
     /\ ev[2][Len(ev[2])] # Marker
     /\ ev[2][2] # Unstrippable) =>
      LET h == on_recv_message(c, ev[1], ev[2], registry)
      IN  /\ h.eat = "Eat::Hexchat"
          /\ h.reg = registry
          /\ h.out = <<>>
          /\ h.spawn =
               <<[kind      |-> "event",
                  name      |-> ev[1],
                  network   |-> get_info(c, "network")[1],
                  channel   |-> get_info(c, "channel")[1],
                  src_lang  |-> SessionOf(c, registry)[1],
                  tgt_lang  |-> SessionOf(c, registry)[2],
                  message   |-> ev[2][2],
                  strip_msg |-> strip(ev[2][2]),
                  sender    |-> ev[2][1],
                  mode_char |-> IF Len(ev[2]) > 2 THEN ev[2][3] ELSE <<>>]>>

\* C5 (steps): the worker of an event calls the backend with (stripped text,
\* t, s); on success, with the window open, the continuation re-emits the same
\* event with sender, translation, mode character if any, and the marker, and
\* then prints the original message, and nothing else.
C5_Steps ==
  /\ (WorkerStep /\ Translated.kind = "event")
       => out'[1] = [op |-> "deepl_translate", text |-> Translated.strip_msg,
                     source |-> Translated.tgt_lang,
                     target |-> Translated.src_lang]
  /\ (DeliverStep /\ Delivered.kind = "event" /\ ~Failed(Delivered)
        /\ Locatable(Delivered))
       => /\ Delivered.msg \in Translations
          /\ out' = <<EmitPrint(WindowOf(Delivered), Delivered.name,
                                ReEmitted(Delivered, Delivered.msg)),
                      PrintLine(WindowOf(Delivered), OriginalLine(Delivered))>>

C6_NoRetrigger ==
  [][/\ (DeliverStep =>
          (/\ InFlight' = InFlight - 1
           /\ workers' = workers
           /\ \A i \in 1..Len(out') :
                (out'[i].op = "emit_print") =>
                  (/\ i = 1
                   /\ out'[i].word[Len(out'[i].word)] = Marker
                   /\ Delivered.kind = "event"
                   /\ out'[i].event = Delivered.name)))
      /\ (WorkerStep =>
          (/\ InFlight' = InFlight
           /\ Len(queue') = Len(queue) + 1
           /\ Cardinality({i \in 1..Len(out') : out'[i].op = "deepl_translate"}) = 1))
      /\ (InFlight' > InFlight =>
          (/\ step' \in HookNames
           /\ InFlight' = InFlight + 1))]_vars

C6_Witness ==
  /\ step = "main_thread"
  /\ Len(out) = 2
  /\ out[1].op = "emit_print"
  /\ out[1].word = <<Sender, <<"T">>, Marker>>
  /\ HasSession(out[1].ctx, registry)
  /\ InFlight = 0

\* C7: in a window that has no session, LSAY / LME (with text) and every
\* hooked text event return Eat::None, start no thread, print nothing and
\* leave the registry as it was.
C7_NoSessionPassThrough ==
  \A c \in Contexts :
    ~HasSession(c, registry) =>
      /\ \A hook \in {"LSAY", "LME"}, m \in AllTexts :
           on_cmd_lsay(c, lsay_udata(hook), <<<<hook, " ">> \o m, m>>, registry)
             = NotHandled
      /\ \A ev \in EventInputs :
           on_recv_message(c, ev[1], ev[2], registry) = NotHandled

C7_Witness ==
  /\ step = "Channel Message"
  /\ ret = "Eat::None"
  /\ out = <<>>
  /\ registry # <<>>
  /\ InFlight = 0

\* C8: when the originating window cannot be located, the continuation prints
\* one "Failed to get context." line in the current window and does nothing
\* else: no send, no event, no registry change (rate-limited or not), no new
\* thread; the queue moves on to the next continuation.
C8_ContextGone ==
  [][(DeliverStep /\ ~Locatable(Delivered))
       => /\ Len(out') = 1
          /\ out'[1].op = "print"
          /\ out'[1].ctx = CurrentCtx
          /\ out'[1].line \in {<<IRC_MAGENTA, "Failed to get context.">>,
                               <<"Failed to get context.">>}
          /\ registry' = registry
          /\ workers' = workers
          /\ queue' = Tail(queue)]_vars

C8_Witness ==
  /\ step = "main_thread"
  /\ out = <<PrintLine(CurrentCtx, <<IRC_MAGENTA, "Failed to get context.">>)>>
  /\ "c1" \notin open
  /\ <<"net", "#a">> \in DOMAIN registry
  /\ queue # <<>>

\* Language arguments tried in C9, beyond those the commands are run with.
C9Tokens == LangTokens \cup {"DE", "ar", "Arabic", "ko", "Korean"}

\* A token names catalog entry i when it is the entry's code or, ignoring
\* case, the entry's display name.
Names(tok, i) ==
  /\ SUPPORTED_LANGUAGES[i] # <<"", "">>
  /\ \/ to_lowercase(tok) = SUPPORTED_LANGUAGES[i][2]
     \/ to_lowercase(tok) = to_lowercase(SUPPORTED_LANGUAGES[i][1])

Unresolved(tok) == \A i \in 1..Len(SUPPORTED_LANGUAGES) : ~Names(tok, i)

SameLanguage(a, b) ==
  \E i \in 1..Len(SUPPORTED_LANGUAGES) : Names(a, i) /\ Names(b, i)

\* The argument pairs SETLANG has to reject.
RejectedPairs ==
  {p \in C9Tokens \X C9Tokens :
     SameLanguage(p[1], p[2]) \/ Unresolved(p[1]) \/ Unresolved(p[2])}

\* C9: SETLANG with two arguments that name the same catalog language, by
\* name or code in any case, or with an argument that names none, prints the
\* bad-parameters line and leaves the registry as it was.  The handler is
\* applied to every registry of the command scope; these include the
\* registries of the other scopes.
C9_SameLanguageRejected ==
  scope = CommandScope =>
    \A c \in Contexts, p \in RejectedPairs :
      on_cmd_setlang(c, <<"SETLANG", p[1], p[2]>>, registry)
        = [reg |-> registry,
           out |-> <<PrintLine(c, <<IRC_MAGENTA, "BAD LANGUAGE PARAMETERS. ">>)>>,
           eat |-> "Eat::All", spawn |-> <<>>]

C9_Witness ==
  /\ step = "SETLANG"
  /\ out = <<PrintLine("c1", <<IRC_MAGENTA, "BAD LANGUAGE PARAMETERS. ">>)>>
  /\ <<"net", "#a">> \in DOMAIN registry
  /\ ret = "Eat::All"
  /\ scope = CommandScope

\* The result of a handler that printed a usage line in c and did nothing else.
UsageOnly(c, h) ==
  /\ h.reg = registry
  /\ h.spawn = <<>>
  /\ h.eat = "Eat::All"
  /\ Len(h.out) = 1
  /\ h.out[1].op = "print"
  /\ h.out[1].ctx = c
  /\ h.out[1].line[1] = "USAGE: "

\* C10: each of the five commands, run with a malformed argument count
\* (SETLANG without exactly two arguments, OFFLANG or LISTLANG with any
\* argument, LSAY or LME without text), prints a usage line and does nothing
\* else.
C10_UsageOnMalformed ==
  \A c \in Contexts :
    /\ \A word \in {w \in SetLangWords : Len(w) # 3} :
         UsageOnly(c, on_cmd_setlang(c, word, registry))
    /\ UsageOnly(c, on_cmd_offlang(c, <<"OFFLANG", ExtraWord>>, registry))
    /\ UsageOnly(c, on_cmd_listlang(c, <<"LISTLANG", ExtraWord>>, registry))
    /\ \A hook \in {"LSAY", "LME"} :
         UsageOnly(c, on_cmd_lsay(c, lsay_udata(hook), <<<<hook>>>>, registry))

\* The part of C10 about SETLANG, OFFLANG and LISTLANG.
UsageOnMalformedRegistryCommands ==
  \A c \in Contexts :
    /\ \A word \in {w \in SetLangWords : Len(w) # 3} :
         UsageOnly(c, on_cmd_setlang(c, word, registry))
    /\ UsageOnly(c, on_cmd_offlang(c, <<"OFFLANG", ExtraWord>>, registry))
    /\ UsageOnly(c, on_cmd_listlang(c, <<"LISTLANG", ExtraWord>>, registry))

\* LSAY / LME without text: with a session the handler indexes the missing
\* text and panics, without one it returns Eat::None; it never prints.
LSayWithoutText ==
  \A c \in Contexts, hook \in {"LSAY", "LME"} :
    LET h == on_cmd_lsay(c, lsay_udata(hook), <<<<hook>>>>, registry)
    IN  /\ h.out = <<>>
        /\ h.spawn = <<>>
        /\ h.reg = registry
        /\ h.eat = IF HasSession(c, registry) THEN "panic" ELSE "Eat::None"

\* The contexts whose network and channel the host can tell.
KeyedContexts ==
  {c \in Contexts : get_info(c, "network") # <<>> /\ get_info(c, "channel") # <<>>}

ContextKey(c) == <<get_info(c, "network")[1], get_info(c, "channel")[1]>>

\* Language pairs the registry operations are tried with.
CodePairs == {"en", "de"} \X {"en", "de"}

OffLine(c) == PrintLine(c, <<IRC_MAGENTA, "Translation turned OFF for this channel.">>)

\* C11: from any registry, activate in a context with key k and pair p makes
\* the lookup return p, and a following deactivate makes it return none; the
\* SETLANG command followed by OFFLANG in the same context leaves that context
\* without a session.
C11_RoundTrip ==
  /\ \A c \in KeyedContexts, p \in CodePairs :
       LET on  == activate(c, registry, p[1], p[2])
           off == deactivate(c, on.reg)
       IN  /\ get_channel_langs(c, on.reg) = Some(p)
           /\ get_channel_langs(c, off.reg) = None
           /\ ContextKey(c) \notin DOMAIN off.reg
           /\ on.out = <<>>
           /\ off.out = <<>>
  /\ \A c \in Contexts :
       \A word \in {<<"SETLANG", "en", "de">>, <<"SETLANG", "German", "English">>} :
         LET set == on_cmd_setlang(c, word, registry)
             off == on_cmd_offlang(c, <<"OFFLANG">>, set.reg)
         IN  /\ c \in KeyedContexts => HasSession(c, set.reg)
             /\ ~HasSession(c, off.reg)
             /\ get_channel_langs(c, off.reg) = None

C11_Witness ==
  /\ step = "OFFLANG"
  /\ out = <<OffLine("c1")>>
  /\ ~HasSession("c1", registry)
  /\ HasSession("c2", registry)

\* C12: from any registry, activate(k, p1) followed by activate(k, p2) leaves
\* one entry for k, holding p2, and adds no other key; repeating the second
\* activate changes nothing.
C12_Overwrite ==
  \A c \in KeyedContexts, p1 \in CodePairs, p2 \in CodePairs :
    LET r1 == activate(c, registry, p1[1], p1[2]).reg
        r2 == activate(c, r1, p2[1], p2[2]).reg
    IN  /\ get_channel_langs(c, r2) = Some(p2)
        /\ DOMAIN r2 = DOMAIN registry \cup {ContextKey(c)}
        /\ \A k \in DOMAIN registry \ {ContextKey(c)} : r2[k] = registry[k]
        /\ activate(c, r2, p2[1], p2[2]).reg = r2

C12_Witness ==
  /\ step = "SETLANG"
  /\ HasSession("c1", registry)
  /\ SessionOf("c1", registry) = <<"de", "en">>
  /\ HasSession("c2", registry)
  /\ SessionOf("c2", registry) = <<"en", "de">>
  /\ out[1].ctx = "c1"

\* C13 as stated: in a context that has no session, deactivate changes
\* nothing and reports nothing, and OFFLANG prints only the 'turned OFF' line.
C13_OffIdempotent ==
  \A c \in Contexts :
    ~HasSession(c, registry) =>
      /\ deactivate(c, registry) = [reg |-> registry, out |-> <<>>]
      /\ on_cmd_offlang(c, <<"OFFLANG">>, registry)
           = [reg |-> registry, out |-> <<OffLine(c)>>,
              eat |-> "Eat::All", spawn |-> <<>>]

\* C13, amended: in a context whose network and channel the host can tell and
\* that has no session, deactivate changes nothing and reports nothing, and
\* OFFLANG prints only the 'turned OFF' line.
C13_OffIdempotentKeyed ==
  \A c \in KeyedContexts :
    ~HasSession(c, registry) =>
      /\ deactivate(c, registry) = [reg |-> registry, out |-> <<>>]
      /\ on_cmd_offlang(c, <<"OFFLANG">>, registry)
           = [reg |-> registry, out |-> <<OffLine(c)>>,
              eat |-> "Eat::All", spawn |-> <<>>]

C13_Witness ==
  /\ step = "OFFLANG"
  /\ out = <<OffLine("c2")>>
  /\ registry = <<>>
  /\ ret = "Eat::All"

\* In a context without network, OFFLANG prints the deactivation failure and
\* then the 'turned OFF' line.
OffLangWithoutNetwork ==
  on_cmd_offlang("c0", <<"OFFLANG">>, registry)
    = [reg |-> registry,
       out |-> <<PrintLine("c0", <<IRC_MAGENTA,
                   "Failed to get channel information during deactivation.">>),
                 OffLine("c0")>>,
       eat |-> "Eat::All", spawn |-> <<>>]

\* The texts by which the plugin's failure lines are recognised, wherever
\* they stand in the line.
FailureTexts ==
  {"USAGE: ", "BAD LANGUAGE PARAMETERS. ", "Failed to get context.",
   "Translation Error: ",
   "Failed to get channel information during activation.",
   "Failed to get channel information during deactivation.",
   BasicFailure}

IsDiagnostic(call) ==
  /\ call.op = "print"
  /\ \E i \in 1..Len(call.line) : call.line[i] \in FailureTexts

Diagnostics(o) == {i \in 1..Len(o) : IsDiagnostic(o[i])}

\* The step just taken met a failure: a handler printed a failure line, or a
\* continuation ran whose translation failed or whose window is gone.
FailureStep ==
  \/ Diagnostics(out') # {}
  \/ DeliverStep /\ (Failed(Delivered) \/ ~Locatable(Delivered))

\* C14: a step that meets a failure prints exactly one failure line, and that
\* line starts with the diagnostic colour prefix.
C14_OneDiagnostic ==
  [][FailureStep =>
       /\ Cardinality(Diagnostics(out')) = 1
       /\ \A i \in Diagnostics(out') : out'[i].line[1] = IRC_MAGENTA]_vars

\* What holds of C14: a failure step prints exactly one failure line; the
\* line starts with the colour prefix unless it is a usage line or the
\* 'Failed to get context.' line of an event's continuation.
OneDiagnosticPrefixedButUsageAndEventDiscard ==
  [][FailureStep =>
       /\ Cardinality(Diagnostics(out')) = 1
       /\ \A i \in Diagnostics(out') :
            \/ out'[i].line[1] = IRC_MAGENTA
            \/ out'[i].line[1] = "USAGE: "
            \/ /\ DeliverStep
               /\ Delivered.kind = "event"
               /\ out'[i].line = <<"Failed to get context.">>]_vars

\* An event's continuation whose window is gone prints the line without the
\* colour prefix.
EventDiscardUnprefixed ==
  [][(DeliverStep /\ Delivered.kind = "event" /\ ~Locatable(Delivered))
       => out' = <<PrintLine(CurrentCtx, <<"Failed to get context.">>)>>]_vars

MessageHooks == {"LSAY", "LME"} \cup HookedEvents

\* C15: with the credential missing, a LSAY / LME command or a text event
\* that the plugin handles starts no thread and prints a failure line at once,
\* on the control thread.
C15_HandledBeforeDispatch ==
  [][(step' \in MessageHooks /\ ~hasKey) =>
       /\ workers' = workers
       /\ (ret' # "Eat::None" => Diagnostics(out') # {})]_vars

\* What the code does without the credential: the handler dispatches as
\* usual and prints nothing; the worker makes no request and queues the
\* 'key not found' error, which the continuation prints.
MissingKeyFoundByWorker ==
  [][/\ (step' \in MessageHooks /\ ~hasKey) => out' = <<>>
     /\ (WorkerStep /\ ~hasKey) =>
          /\ Len(out') = 1
          /\ out'[1].op = "deepl_translate"
          /\ queue'[Len(queue')].emsg =
               <<(<<IRC_MAGENTA, "Translation Error: ", "DeepL API key not found.">>)>>
          /\ queue'[Len(queue')].msg = Translated.strip_msg]_vars

\* What the code does in a context whose network cannot be determined: LSAY /
\* LME and every text event return Eat::None, print nothing, start no thread.
UnresolvableContextNotHandled ==
  /\ \A hook \in {"LSAY", "LME"}, m \in AllTexts :
       on_cmd_lsay("c0", lsay_udata(hook), <<<<hook, " ">> \o m, m>>, registry)
         = NotHandled
  /\ \A ev \in EventInputs :
       on_recv_message("c0", ev[1], ev[2], registry) = NotHandled

\* The thread of job finishes next.
FinishesNext(job) == Worker /\ workers' = workers (-) SetToBag({job})

\* The closure a finished thread queues belongs to that thread's message.
ContinuationOf(cont, job) ==
  /\ cont.kind = job.kind
  /\ cont.name = job.name
  /\ cont.network = job.network
  /\ cont.channel = job.channel
  /\ cont.message = job.message
  /\ cont.sender = job.sender
  /\ cont.mode_char = job.mode_char
  /\ \/ cont.msg \in Translations /\ ~Failed(cont)
     \/ cont.msg = job.strip_msg /\ Failed(cont)

\* C16 (order): whichever threads are translating, any one of them may be
\* the next to finish, so results may be queued in either order.
C16_AnyOrder == \A job \in BagToSet(workers) : ENABLED FinishesNext(job)

\* C16 (steps): a finishing thread queues one closure, which carries its own
\* message; the control thread takes the oldest closure off the queue, once,
\* shows that closure's own sender, translation and original in its window,
\* and changes the registry as that closure alone would: it removes the
\* window's entry when the failure was a rate limit, and nothing otherwise.
C16_Steps ==
  /\ WorkerStep =>
       /\ workers' = workers (-) SetToBag({Translated})
       /\ Len(queue') = Len(queue) + 1
       /\ SubSeq(queue', 1, Len(queue)) = queue
       /\ ContinuationOf(queue'[Len(queue')], Translated)
  /\ DeliverStep =>
       /\ queue' = Tail(queue)
       /\ workers' = workers
       /\ Locatable(Delivered) =>
            /\ out'[1] = Carries(Delivered, Delivered.msg)
            /\ out'[2] = PrintLine(WindowOf(Delivered), OriginalLine(Delivered))
       /\ registry' =
            IF Locatable(Delivered) /\ RateLimited(Delivered)
            THEN MapRemove(registry, KeyOf(Delivered))
            ELSE registry

\* C16: out-of-order delivery is possible and harmless.
C16_OutOfOrder == [](C16_AnyOrder) /\ [][C16_Steps]_vars

C16_Witness ==
  /\ Len(queue) = 2
  /\ queue[1].kind = "event"
  /\ queue[2].kind = "cmd"
  /\ KeyOf(queue[1]) = KeyOf(queue[2])
  /\ queue[1].message # queue[2].message
  /\ step = "worker"

\* C17: when a continuation runs and its window is open, every host call it
\* makes (send, re-emission, print of the original, error line, OFFLANG and
\* what OFFLANG prints) goes to the window whose network and channel the
\* message was dispatched from, and the registry entries of all other
\* windows stay as they were.
C17_ContextCorrect ==
  [][(DeliverStep /\ Locatable(Delivered)) =>
       /\ WindowsOf(Delivered) = {WindowOf(Delivered)}
       /\ ContextKey(WindowOf(Delivered)) = KeyOf(Delivered)
       /\ Len(out') >= 2
       /\ \A i \in 1..Len(out') : out'[i].ctx = WindowOf(Delivered)
       /\ DOMAIN registry \ {KeyOf(Delivered)} = DOMAIN registry' \ {KeyOf(Delivered)}
       /\ \A k \in DOMAIN registry \ {KeyOf(Delivered)} : registry'[k] = registry[k]]_vars

C17_Witness ==
  /\ step = "main_thread"
  /\ Len(out) = 5
  /\ \A i \in 1..Len(out) : out[i].ctx = "c2"
  /\ out[4] = Command("c2", <<"OFFLANG">>)
  /\ out[5] = OffLine("c2")
  /\ ~HasSession("c2", registry)
  /\ HasSession("c1", registry)

\* Registry reg without its entry for key k.
Without(reg, k) == [x \in DOMAIN reg \ {k} |-> reg[x]]

\* r2 is r1 with one entry inserted or overwritten.
IsInsert(r1, r2) ==
  \E k \in DOMAIN r2 :
    /\ DOMAIN r2 = DOMAIN r1 \cup {k}
    /\ \A x \in DOMAIN r1 \ {k} : r2[x] = r1[x]

\* r2 is r1 with one entry removed.
IsRemove(r1, r2) == \E k \in DOMAIN r1 : r2 = Without(r1, k)

\* C18: a step that changes the registry is a SETLANG step that inserts or
\* overwrites one entry, an OFFLANG step that removes one entry, or the
\* control thread running the continuation of a rate-limited translation,
\* which removes its window's entry.  No worker step, no LSAY / LME /
\* LISTLANG step and no text-event step (You Part, You Part with Reason and
\* Disconnected included) changes it.
C18_RegistryWriters ==
  [][/\ registry' # registry =>
          \/ step' = "SETLANG" /\ IsInsert(registry, registry')
          \/ step' = "OFFLANG" /\ IsRemove(registry, registry')
          \/ /\ DeliverStep
             /\ RateLimited(Delivered)
             /\ Locatable(Delivered)
             /\ registry' = Without(registry, KeyOf(Delivered))
     /\ step' \in {"worker", "LSAY", "LME", "LISTLANG", "close", "open"}
                  \cup HookedEvents
          => registry' = registry]_vars

C18_Witness ==
  /\ step = "You Part"
  /\ ret = "Eat::None"
  /\ HasSession("c1", registry)
  /\ HasSession("c2", registry)
  /\ "c1" \notin open

\* C19: OFFLANG leaves the threads and the queued closures alone; a thread
\* whose window has lost its session still calls the backend and queues its
\* closure; and a closure that runs when its window has no session any more
\* is delivered in full (send or re-emission, then the original, then the
\* error line if it failed) if the window is open, and is dropped with the
\* one 'Failed to get context.' line only if the window cannot be located.
C19_NoCancellation ==
  [][/\ step' = "OFFLANG" => (workers' = workers /\ queue' = queue)
     /\ (WorkerStep /\ <<Translated.network, Translated.channel>> \notin DOMAIN registry)
          => /\ out'[1].op = "deepl_translate"
             /\ ContinuationOf(queue'[Len(queue')], Translated)
     /\ (DeliverStep /\ KeyOf(Delivered) \notin DOMAIN registry) =>
          IF Locatable(Delivered)
          THEN /\ Len(out') >= IF Failed(Delivered) THEN 3 ELSE 2
               /\ out'[1] = Carries(Delivered, Delivered.msg)
               /\ out'[2] = PrintLine(WindowOf(Delivered), OriginalLine(Delivered))
               /\ Failed(Delivered) =>
                    out'[3] = PrintLine(WindowOf(Delivered), Delivered.emsg[1])
               /\ ~Failed(Delivered) => Len(out') = 2
          ELSE /\ Len(out') = 1
               /\ out'[1].op = "print"
               /\ out'[1].ctx = CurrentCtx
               /\ out'[1].line[Len(out'[1].line)] = "Failed to get context."]_vars

C19_Witness ==
  /\ step = "main_thread"
  /\ out = <<Command("c1", <<"SAY", " ", "T">>),
             PrintLine("c1", <<IRC_CYAN, "^B", "hallo">>)>>
  /\ ~HasSession("c1", registry)
  /\ "c1" \in open

\* The control thread has just dropped a closure of the kind of job because
\* its window could not be located.
Discarded(job) ==
  /\ step = "main_thread"
  /\ out = <<PrintLine(CurrentCtx,
               IF job.kind = "cmd" THEN <<IRC_MAGENTA, "Failed to get context.">>
               ELSE <<"Failed to get context.">>)>>

\* The control thread has just delivered the closure of job to its window.
DeliveredTo(job) ==
  /\ step = "main_thread"
  /\ Len(out) >= 2
  /\ out[1].op = IF job.kind = "cmd" THEN "command" ELSE "emit_print"
  /\ ContextKey(out[1].ctx) = <<job.network, job.channel>>
  /\ out[2] = PrintLine(out[1].ctx, <<IRC_CYAN>> \o job.message)

\* C20 (one call): a worker step makes exactly one backend call and at most
\* one request, and ends its thread; a continuation makes no backend call and
\* starts no thread, whether the translation failed or not.
C20_OneCall ==
  /\ WorkerStep =>
       /\ Cardinality({i \in 1..Len(out') : out'[i].op = "deepl_translate"}) = 1
       /\ Cardinality({i \in 1..Len(out') : out'[i].op = "post"}) <= 1
       /\ BagCardinality(workers') = BagCardinality(workers) - 1
  /\ DeliverStep =>
       /\ \A i \in 1..Len(out') : out'[i].op \notin {"deepl_translate", "post"}
       /\ workers' = workers
       /\ queue' = Tail(queue)

\* C20 (progress): under fair scheduling of the threads and of the control
\* thread's queue, a closure handed to a thread is eventually run on the
\* control thread, which delivers it to its window or drops it.
C20_Progress ==
  \A job \in LiveJobs :
    (job \in BagToSet(workers)) ~> (DeliveredTo(job) \/ Discarded(job))

\* C20: every dispatched translation makes one backend call and ends.
C20_EventuallyDelivered == [][C20_OneCall]_vars /\ C20_Progress

C20_Witness ==
  /\ step = "main_thread"
  /\ InFlight = 0
  /\ Len(out) = 5
  /\ out[1] = Command("c1", <<"SAY", " ", "hallo">>)
  /\ out[3] = PrintLine("c1", RequestFailedLine("status code 429"))
  /\ ~HasSession("c1", registry)
  /\ scope = Live

\* The short codes of the language catalog.
CatalogCodes ==
  {SUPPORTED_LANGUAGES[i][2] : i \in 1..Len(SUPPORTED_LANGUAGES)}

\* C21: in every reachable state each stored pair is made of two short codes
\* of the language catalog (not a display name such as "German", not an
\* alias in another case such as "EN"), and its source differs from its
\* target.
C21_RegistryInvariant ==
  \A k \in DOMAIN registry :
    /\ registry[k][1] \in CatalogCodes
    /\ registry[k][2] \in CatalogCodes
    /\ registry[k][1] # registry[k][2]

\* A session set with display names (/SETLANG German English, the one
\* command of the Wide scope that gives this pair) holds the codes.
C21_Witness ==
  /\ scope = Wide
  /\ step = "SETLANG"
  /\ HasSession("c1", registry)
  /\ SessionOf("c1", registry) = <<"de", "en">>

\* The thread a handler step has started.
Dispatched == CHOOSE job \in BagToSet(workers') : workers' = workers (+) SetToBag({job})

\* The backend call of a thread for text t from language s to language d.
BackendCall(t, s, d) == [op |-> "deepl_translate", text |-> t, source |-> s, target |-> d]

\* C22: a thread is started with the pair that its window's entry holds at
\* that moment; SETLANG and OFFLANG leave the threads and the queued closures
\* as they are; the thread passes its own text and its own pair to the
\* backend (reversed for an incoming event) whatever the registry holds by
\* then, and queues a closure with its own message, sender, mode char,
\* network and channel; the control thread delivers that closure's content to
\* the window found by that network and channel.
C22_Snapshot ==
  [][/\ (step' \in MessageHooks /\ workers' # workers) =>
          /\ workers' = workers (+) SetToBag({Dispatched})
          /\ KeyOf(Dispatched) \in DOMAIN registry
          /\ registry[KeyOf(Dispatched)] = <<Dispatched.src_lang, Dispatched.tgt_lang>>
     /\ step' \in {"SETLANG", "OFFLANG"} => (workers' = workers /\ queue' = queue)
     /\ WorkerStep =>
          /\ Len(out') >= 1
          /\ out'[1] = IF Translated.kind = "cmd"
                       THEN BackendCall(Translated.strip_msg,
                                        Translated.src_lang, Translated.tgt_lang)
                       ELSE BackendCall(Translated.strip_msg,
                                        Translated.tgt_lang, Translated.src_lang)
          /\ ContinuationOf(queue'[Len(queue')], Translated)
     /\ (DeliverStep /\ Locatable(Delivered)) =>
          /\ Len(out') >= 2
          /\ out'[1] = Carries(Delivered, Delivered.msg)
          /\ out'[2] = PrintLine(WindowOf(Delivered), OriginalLine(Delivered))]_vars

\* A thread started by LSAY or LME under (en, de) has called the backend with
\* (en, de) although a later SETLANG has made the window's pair (de, en).
C22_Witness ==
  /\ step = "worker"
  /\ queue # <<>>
  /\ queue[Len(queue)].kind = "cmd"
  /\ out[1].source = "en"
  /\ out[1].target = "de"
  /\ KeyOf(queue[Len(queue)]) \in DOMAIN registry
  /\ registry[KeyOf(queue[Len(queue)])] = <<"de", "en">>

\* C23: when the control thread runs the continuation of a rate-limited
\* translation in its window, it issues OFFLANG there and the registry
\* afterwards is the registry before without the entry of the continuation's
\* (network, channel), whichever pair that entry held (the continuation
\* carries no pair to compare it with); when there was no entry the registry
\* is unchanged.
C23_KeyedByContext ==
  [][(DeliverStep /\ RateLimited(Delivered) /\ Locatable(Delivered)) =>
       /\ \E i \in 1..Len(out') :
            out'[i] = Command(WindowOf(Delivered), <<"OFFLANG">>)
       /\ registry' = Without(registry, KeyOf(Delivered))
       /\ \A k \in DOMAIN registry \ {KeyOf(Delivered)} : registry'[k] = registry[k]
       /\ KeyOf(Delivered) \notin DOMAIN registry => registry' = registry]_vars

\* A thread started by LSAY or LME under (en, de) has just queued a
\* rate-limited result; a SETLANG after the dispatch has made the window's
\* pair (de, en); the delivery that comes next removes that entry.
C23_Witness ==
  /\ step = "worker"
  /\ queue # <<>>
  /\ Delivered.kind = "cmd"
  /\ RateLimited(Delivered)
  /\ Locatable(Delivered)
  /\ out[1].source = "en"
  /\ out[1].target = "de"
  /\ KeyOf(Delivered) \in DOMAIN registry
  /\ registry[KeyOf(Delivered)] = <<"de", "en">>
  /\ ENABLED (Deliver /\ KeyOf(Delivered) \notin DOMAIN registry')

\* Key k has the same presence and the same pair in registries r1 and r2.
SameEntry(r1, r2, k) ==
  /\ k \in DOMAIN r1 <=> k \in DOMAIN r2
  /\ k \in DOMAIN r1 => r2[k] = r1[k]

\* Every key other than those in keys has the same entry in r1 and r2.
FrameExcept(r1, r2, keys) ==
  \A k \in (DOMAIN r1 \cup DOMAIN r2) \ keys : SameEntry(r1, r2, k)

\* The key of the window a command step ran in (the window of its first
\* printed line), if the host can tell that window's network and channel.
CommandKeys(o) ==
  IF o # <<>> /\ o[1].ctx \in KeyedContexts THEN {ContextKey(o[1].ctx)} ELSE {}

\* C24: a SETLANG or OFFLANG step leaves the entry of every key other than
\* its own window's (network, channel) as it was, and so does the delivery
\* of a result, rate-limited or not, for every key other than the
\* continuation's; keys that differ only in the case of the channel name
\* ("#a" and "#A") are different keys.
C24_PerKeyFrame ==
  [][/\ step' \in {"SETLANG", "OFFLANG"} =>
          /\ Len(out') >= 1
          /\ FrameExcept(registry, registry', CommandKeys(out'))
     /\ DeliverStep => FrameExcept(registry, registry', {KeyOf(Delivered)})]_vars

\* A rate limit hit in #a has switched #a off and left the session of #A on.
C24_Witness ==
  /\ step = "main_thread"
  /\ \E i \in 1..Len(out) : out[i] = Command("c1", <<"OFFLANG">>)
  /\ ~HasSession("c1", registry)
  /\ HasSession("c2", registry)
  /\ ContextKey("c1") = <<"net", "#a">>
  /\ ContextKey("c2") = <<"net", "#A">>

\* The fields of the events the hook may be called with: those of the
\* incoming events, and an event the plugin re-emitted with a mode character.
EventWords ==
  {ev[2] : ev \in EventInputs} \cup {<<Sender, <<"T">>, <<"@">>, Marker>>}

\* The event has fewer than two fields, or its last field is "~".
Guarded(word) == Len(word) < 2 \/ word[Len(word)] = <<"~">>

\* The handler intercepted the event and started one thread for it, with the
\* event's kind, first field as sender, second as message and third, if any,
\* as mode character.
InterceptedAndDispatched(h, c, kind, word) ==
  /\ h.eat = "Eat::Hexchat"
  /\ h.out = <<>>
  /\ h.reg = registry
  /\ Len(h.spawn) = 1
  /\ h.spawn[1].kind = "event"
  /\ h.spawn[1].name = kind
  /\ h.spawn[1].sender = word[1]
  /\ h.spawn[1].message = word[2]
  /\ h.spawn[1].mode_char = (IF Len(word) > 2 THEN word[3] ELSE <<>>)
  /\ KeyOf(h.spawn[1]) = ContextKey(c)

\* The handler intercepted the event, printed the basic-failure line and
\* started no thread.
InterceptedNotDispatched(h, c) ==
  /\ h.eat = "Eat::Hexchat"
  /\ h.out = <<PrintLine(c, <<IRC_MAGENTA, BasicFailure>>)>>
  /\ h.reg = registry
  /\ h.spawn = <<>>

\* C25 as stated: in every window, with or without a session, a hooked event
\* of any kind with fewer than two fields or with "~" as its last field is
\* not handled (Eat::None, no thread, nothing printed, registry as it was),
\* and every other hooked event in a window with a session is intercepted
\* and dispatched.
C25_GuardOnFieldsOnly ==
  \A c \in Contexts, kind \in HookedEvents, word \in EventWords :
    LET h == on_recv_message(c, kind, word, registry)
    IN  /\ Guarded(word) => h = NotHandled
        /\ (~Guarded(word) /\ HasSession(c, registry)) =>
              InterceptedAndDispatched(h, c, kind, word)

\* C25, amended: as above, except that an event that is not guarded, in a
\* window with a session, whose message the host cannot strip is intercepted
\* but not dispatched: the handler prints the basic-failure line and returns
\* Eat::Hexchat.
C25_GuardOnFieldsOnlyStrippable ==
  \A c \in Contexts, kind \in HookedEvents, word \in EventWords :
    LET h == on_recv_message(c, kind, word, registry)
    IN  /\ Guarded(word) => h = NotHandled
        /\ (~Guarded(word) /\ HasSession(c, registry)) =>
              IF host_strip(word[2]) # None
              THEN InterceptedAndDispatched(h, c, kind, word)
              ELSE InterceptedNotDispatched(h, c)

\* The control thread has re-emitted an event with a mode character and the
\* marker in a window whose session is on, and the hook let it pass (no
\* thread was started); in that state the hook also lets pass a message whose
\* mode character is "~" and a one-field Disconnected, and it dispatches a
\* You Part with three fields as it would a message.
C25_Witness ==
  /\ step = "main_thread"
  /\ Len(out) = 2
  /\ out[1].op = "emit_print"
  /\ out[1].word = <<Sender, <<"T">>, <<"@">>, Marker>>
  /\ HasSession(out[1].ctx, registry)
  /\ InFlight = 0
  /\ on_recv_message(out[1].ctx, "Channel Message",
                     <<Sender, <<"welt">>, <<"~">>>>, registry) = NotHandled
  /\ on_recv_message(out[1].ctx, "Disconnected",
                     <<<<"Connection reset">>>>, registry) = NotHandled
  /\ Len(on_recv_message(out[1].ctx, "You Part",
                         <<<<"me">>, <<"me@host">>, <<"#a">>>>, registry).spawn) = 1

====
